---- MODULE Spec2Model ----
(***************************************************************************)
(* BunCrudRepository[E, T] (repository/repository_bun.go): the twelve CRUD  *)
(* operations of the generic repository, the query each one builds and the  *)
(* executor it runs it on.  The executor (bun over a SQL store) is modelled *)
(* by what the repository's tests observe of it: the statement it renders   *)
(* from the builder calls and the rows it returns or changes.               *)
(***************************************************************************)
EXTENDS Integers, Sequences, FiniteSets, TLC

\* ------------------------------------------------------------------ bounds
MaxRows == 2       \* rows a table holds at most
MaxClock == 2      \* soft-delete timestamps handed out at most
MaxPks == 2        \* primary keys in one FindAllByPks batch at most
MaxPage == 1       \* pager size and page number at most

\* the values callers put in columns, filters and keys; 0 is the zero value
Vals == {1, 2}

\* ------------------------------------------------------------- nil values
NilTx == "nil"                     \* tx bun.IDB == nil
NoErr == [prefix |-> "", cause |-> ""]
NilEntity == <<>>                  \* a nil *E
NilSpec == [t |-> "nil"]           \* a nil dataset.Specifier
NilPage == [nil |-> TRUE, size |-> 0, number |-> 0]
NilSort == [nil |-> TRUE, directions |-> <<>>]
NoFrag == [k |-> "none"]

\* ------------------------------------------------- entities and their Meta
Entities == {"TestSimpleEnt", "TestComplexEnt", "TestSoftDeleteEnt", "TestCategoryEnt"}

\* the bun-tagged columns of the entity struct
Columns(e) ==
    CASE e = "TestSimpleEnt" -> {"id", "name"}
      [] e = "TestComplexEnt" -> {"first_id", "second_id", "complex_name"}
      [] e = "TestSoftDeleteEnt" -> {"id", "name", "deleted_at"}
      [] e = "TestCategoryEnt" -> {"id", "name", "main_item_id"}

\* the columns tagged pk
PkColumns(e) ==
    CASE e = "TestSimpleEnt" -> {"id"}
      [] e = "TestComplexEnt" -> {"first_id", "second_id"}
      [] e = "TestSoftDeleteEnt" -> {"id"}
      [] e = "TestCategoryEnt" -> {"id"}

\* the column tagged soft_delete, "" when the entity has none
SoftDeleteColumn(e) == IF e = "TestSoftDeleteEnt" THEN "deleted_at" ELSE ""

IsSoftDeletable(e) == SoftDeleteColumn(e) # ""

\* Meta.PresenterToPersistence: json field name -> column, "" when unknown
PresenterToPersistence(e, field) ==
    CASE e = "TestComplexEnt" /\ field = "firstId" -> "first_id"
      [] e = "TestComplexEnt" /\ field = "secondId" -> "second_id"
      [] e = "TestComplexEnt" /\ field = "complexName" -> "complex_name"
      [] e = "TestSoftDeleteEnt" /\ field = "deletedAt" -> "deleted_at"
      [] e = "TestCategoryEnt" /\ field = "mainItemId" -> "main_item_id"
      [] e = "TestCategoryEnt" /\ field = "Category.MainItem.name" -> "test_items.name"
      [] e = "TestCategoryEnt" /\ field = "Category.Items.name" -> "test_items.name"
      [] e # "TestComplexEnt" /\ field \in {"id", "name"} -> field
      [] OTHER -> ""

\* the column a specifier or sorter uses for a field: the mapped column, the
\* raw field name when the field is unmapped
ResolveColumn(e, field) ==
    IF PresenterToPersistence(e, field) = "" THEN field
    ELSE PresenterToPersistence(e, field)

\* E.PrimaryKey(): the entity's own key, keyed by presenter field names
PrimaryKeyOf(e, entity) ==
    IF e = "TestComplexEnt"
    THEN [f \in {"firstId", "secondId"} |->
            IF f = "firstId" THEN entity["first_id"] ELSE entity["second_id"]]
    ELSE [f \in {"id"} |-> entity["id"]]

\* ---------------------------------------------------- metadata.PrimaryKey
\* A PrimaryKey is a map from presenter field name to value.
\* sort.Strings order of the field names that occur in keys
FieldOrder ==
    <<"complexName", "deletedAt", "firstId", "id", "mainItemId", "name", "secondId">>

\* pk.IsComposite(): more than one field
IsComposite(pk) == Cardinality(DOMAIN pk) > 1

\* pk.SortedKeys(): the field names in lexicographic order
SortedKeys(pk) == SelectSeq(FieldOrder, LAMBDA f : f \in DOMAIN pk)

\* pk.Sorted(): one single-entry map per field, in SortedKeys order
Sorted(pk) ==
    [i \in 1..Len(SortedKeys(pk)) |->
        [f \in {SortedKeys(pk)[i]} |-> pk[SortedKeys(pk)[i]]]]

\* the permutations of a map's fields: the orders Go's range over the map can
\* take
RangeOrders(m) ==
    {s \in [1..Cardinality(DOMAIN m) -> DOMAIN m] :
        \A i, j \in DOMAIN s : i # j => s[i] # s[j]}

\* ------------------------------------------------------ dataspec.Specifier
NewEqual(field, value) == [t |-> "Equal", field |-> field, value |-> value]
NewIn(field, values) == [t |-> "In", field |-> field, values |-> values]
NewCompositeIn(fields, values) ==
    [t |-> "CompositeIn", fields |-> fields, values |-> values]
NewAnd(children) == [t |-> "And", children |-> children]

\* spec.Append(child) on an And
Append_(spec, child) == NewAnd(Append(spec.children, child))

\* spec.IsEmpty(): an And without children; a leaf predicate is never empty
SpecIsEmpty(spec) == spec.t = "And" /\ Len(spec.children) = 0

\* HasFilter without the IsEmpty check
HasFilterNilOnly(spec) == spec # NilSpec

\* the guard every operation puts before it compiles a specifier
HasFilter(spec) == spec # NilSpec /\ ~SpecIsEmpty(spec)

RECURSIVE SpecQuery(_, _)
\* spec.Query(meta): the filter fragment, its columns resolved through Meta
SpecQuery(e, spec) ==
    CASE spec.t = "Equal" -> [k |-> "eq", col |-> ResolveColumn(e, spec.field)]
      [] spec.t = "In" -> [k |-> "in", col |-> ResolveColumn(e, spec.field)]
      [] spec.t = "CompositeIn" ->
            [k |-> "cin",
             cols |-> [i \in 1..Len(spec.fields) |-> ResolveColumn(e, spec.fields[i])]]
      [] spec.t = "And" ->
            [k |-> "and",
             parts |-> [i \in 1..Len(spec.children) |-> SpecQuery(e, spec.children[i])]]

RECURSIVE SpecValuesFrom(_, _)
SpecValuesFrom(children, i) ==
    IF i > Len(children) THEN <<>>
    ELSE (CASE children[i].t = "Equal" -> <<children[i].value>>
            [] children[i].t = "In" -> <<children[i].values>>
            [] children[i].t = "CompositeIn" -> <<children[i].values>>
            [] children[i].t = "And" -> SpecValuesFrom(children[i].children, 1))
         \o SpecValuesFrom(children, i + 1)

\* spec.Values(): the bound values, depth first, left to right
SpecValues(spec) == SpecValuesFrom(<<spec>>, 1)

\* the join the ToOne relation MainItem of TestCategoryEnt compiles to
MainItemJoin == "INNER JOIN test_items ON main_item_id = test_items.id"

\* the two joins the ToMany relation Items compiles to: its via table, then
\* its target table
ViaJoin ==
    "INNER JOIN test_category_items ON test_category_items.category_id = test_categories.id"
ItemsJoin == "INNER JOIN test_items ON item_id = test_items.id"

\* the joins a field needs: one for a field reached through MainItem, two for
\* a field reached through Items, none for a field of the entity itself
FieldJoins(e, field) ==
    CASE e = "TestCategoryEnt" /\ field = "Category.MainItem.name" -> <<MainItemJoin>>
      [] e = "TestCategoryEnt" /\ field = "Category.Items.name" -> <<ViaJoin, ItemsJoin>>
      [] OTHER -> <<>>

RECURSIVE DistinctJoins(_)
\* join emission is idempotent per distinct path: each join once, where it
\* first occurs
DistinctJoins(joins) ==
    IF Len(joins) = 0 THEN <<>>
    ELSE LET front == DistinctJoins(SubSeq(joins, 1, Len(joins) - 1))
             j == joins[Len(joins)]
         IN IF \E i \in DOMAIN front : front[i] = j THEN front ELSE Append(front, j)

RECURSIVE SpecJoinsFrom(_, _, _)
SpecJoinsFrom(e, children, i) ==
    IF i > Len(children) THEN <<>>
    ELSE (CASE children[i].t \in {"Equal", "In"} -> FieldJoins(e, children[i].field)
            [] children[i].t = "And" -> SpecJoinsFrom(e, children[i].children, 1)
            [] OTHER -> <<>>)
         \o SpecJoinsFrom(e, children, i + 1)

\* spec.Joins(meta): the joins of the relations the specifier's fields go
\* through
SpecJoins(e, spec) == DistinctJoins(SpecJoinsFrom(e, <<spec>>, 1))

\* ------------------------------------------------------ dataset.Pager (Page)
NewPager(size, number) == [nil |-> FALSE, size |-> size, number |-> number]
GetSize(page) == page.size

\* GetOffset for pages counted from one
GetOffsetOneBased(page) == page.size * (page.number + 1)

GetOffset(page) == page.size * page.number
PageIsEmpty(page) == page.size = 0 /\ page.number = 0

\* the guard FindPage puts before Limit/Offset
HasPage(page) == ~page.nil /\ ~PageIsEmpty(page)

\* ------------------------------------------------------ dataset.Sorter (Sort)
\* Sort.directions is a Go map from field to direction
NewSorter(directions) == [nil |-> FALSE, directions |-> directions]
SortIsEmpty(sort) == Cardinality(DOMAIN sort.directions) = 0

\* Sort.WithSort(column, direction): r.directions[column] = direction
Sort_WithSort(sort, column, direction) ==
    [sort EXCEPT !.directions =
        [f \in DOMAIN @ \cup {column} |-> IF f = column THEN direction ELSE @[f]]]

\* NewSorter() followed by the first n WithSort calls of a sequence of
\* (field, direction) pairs
RECURSIVE SorterOf(_, _)
SorterOf(calls, n) ==
    IF n = 0 THEN NewSorter([f \in {} |-> ""])
    ELSE Sort_WithSort(SorterOf(calls, n - 1), calls[n].field, calls[n].dir)

\* strings.ToUpper on the directions callers pass
ToUpper(d) ==
    CASE d = "asc" -> "ASC"
      [] d = "desc" -> "DESC"
      [] OTHER -> d

\* Sort.OrderBy(meta): one "column DIRECTION" entry per map entry, in the order
\* the range over the map visits the fields (order: a permutation of them)
OrderBy(e, sort, order) ==
    [i \in 1..Len(order) |->
        [col |-> ResolveColumn(e, order[i]),
         dir |-> ToUpper(sort.directions[order[i]])]]

\* the guard FindPage puts before OrderExpr
HasSort(sort) == ~sort.nil /\ ~SortIsEmpty(sort)

\* ------------------------------------------------------------- bun queries
\* A query is what the builder calls set on it; calls keeps their order.
NewQuery(verb) ==
    [verb |-> verb, columns |-> <<>>, joins |-> <<>>, where |-> NoFrag,
     values |-> <<>>, limit |-> 0, offset |-> 0, order |-> <<>>,
     data |-> <<>>, set |-> <<>>, returning |-> <<>>, calls |-> <<>>]

QColumn(q, columns) ==
    [q EXCEPT !.columns = columns, !.calls = Append(@, "Column")]
\* QJoins with the loop running from the last join to the first
QJoinsReversed(q, joins) ==
    [q EXCEPT !.joins = @ \o [i \in DOMAIN joins |-> joins[Len(joins) + 1 - i]],
              !.calls = @ \o [i \in DOMAIN joins |-> "Join"]]

\* for _, j := range spec.Joins(r.Meta) { query.Join(j.JoinString, j.Args...) }
QJoins(q, joins) ==
    [q EXCEPT !.joins = @ \o joins,
              !.calls = @ \o [i \in DOMAIN joins |-> "Join"]]
QWhere(q, frag, values) ==
    [q EXCEPT !.where = frag, !.values = values, !.calls = Append(@, "Where")]
QLimit(q, n) == [q EXCEPT !.limit = n, !.calls = Append(@, "Limit")]
QOffset(q, n) == [q EXCEPT !.offset = n, !.calls = Append(@, "Offset")]
QOrderExpr(q, clause) ==
    [q EXCEPT !.order = clause, !.calls = Append(@, "OrderExpr")]
QModel(q, data) == [q EXCEPT !.data = data]
QSet(q, columns) == [q EXCEPT !.set = columns]
QReturning(q, columns) == [q EXCEPT !.returning = columns]

\* WithSpec without the loop over spec.Joins
WithSpecWhereOnly(e, q, spec) ==
    IF HasFilter(spec)
    THEN QWhere(q, SpecQuery(e, spec), SpecValues(spec))
    ELSE q

\* if spec != nil && !spec.IsEmpty() { joins...; query.Where(...) }
WithSpec(e, q, spec) ==
    IF HasFilter(spec)
    THEN QWhere(QJoins(q, SpecJoins(e, spec)), SpecQuery(e, spec), SpecValues(spec))
    ELSE q

\* the same guard in Delete and ForceDelete, which add no joins
WithSpecNoJoins(e, q, spec) ==
    IF HasFilter(spec)
    THEN QWhere(q, SpecQuery(e, spec), SpecValues(spec))
    ELSE q

\* ------------------------------------------------------------ the executor
\* What running a query does on the table: a sequence of rows, each a map
\* from the entity's columns to values (deleted_at 0 is NULL).
RECURSIVE FragArity(_), ArityFrom(_, _), FragHolds(_, _, _), HoldsFrom(_, _, _, _)
RECURSIVE FragCols(_), ColsFrom(_, _)

\* the number of ? placeholders of a fragment
FragArity(frag) == IF frag.k = "and" THEN ArityFrom(frag.parts, 1) ELSE 1

ArityFrom(parts, i) ==
    IF i > Len(parts) THEN 0 ELSE FragArity(parts[i]) + ArityFrom(parts, i + 1)

\* the columns a fragment names
FragCols(frag) ==
    CASE frag.k = "and" -> ColsFrom(frag.parts, 1)
      [] frag.k = "cin" -> {frag.cols[i] : i \in DOMAIN frag.cols}
      [] OTHER -> {frag.col}

ColsFrom(parts, i) ==
    IF i > Len(parts) THEN {} ELSE FragCols(parts[i]) \cup ColsFrom(parts, i + 1)

\* a row satisfies the fragment with the values bound to its placeholders in
\* order
FragHolds(frag, vals, row) ==
    CASE frag.k = "and" -> HoldsFrom(frag.parts, 1, vals, row)
      [] frag.k = "in" -> \E i \in DOMAIN vals[1] : row[frag.col] = vals[1][i]
      [] frag.k = "cin" ->
            \E i \in DOMAIN vals[1] :
                \A j \in DOMAIN frag.cols : row[frag.cols[j]] = vals[1][i][j]
      [] OTHER -> row[frag.col] = vals[1]

HoldsFrom(parts, i, vals, row) ==
    IF i > Len(parts) THEN TRUE
    ELSE /\ FragHolds(parts[i], SubSeq(vals, 1, FragArity(parts[i])), row)
         /\ HoldsFrom(parts, i + 1,
                      SubSeq(vals, FragArity(parts[i]) + 1, Len(vals)), row)

\* the rows of test_items: one item, with id 1
Items == <<[id |-> 1, name |-> 2]>>

\* the rows of test_category_items: category 1 holds item 1
CategoryItems == <<[category_id |-> 1, item_id |-> 1]>>

HasJoin(q, join) == \E i \in DOMAIN q.joins : q.joins[i] = join

\* the columns a statement can name besides the entity's own: those of the
\* tables it joins
JoinedCols(q) ==
    IF HasJoin(q, MainItemJoin) \/ HasJoin(q, ItemsJoin)
    THEN {"test_items.name"} ELSE {}

\* the store accepts the joins: no table is joined twice, and item_id is named
\* only after the via table that has it was joined
JoinsAccepted(q) ==
    /\ \A i, j \in DOMAIN q.joins : i # j => q.joins[i] # q.joins[j]
    /\ ~(HasJoin(q, MainItemJoin) /\ HasJoin(q, ItemsJoin))
    /\ \A i \in DOMAIN q.joins :
          q.joins[i] = ItemsJoin => \E j \in 1..(i - 1) : q.joins[j] = ViaJoin

\* the items a row is joined with: the one main_item_id refers to, or those
\* test_category_items gives the row
JoinedItems(q, r) ==
    {k \in DOMAIN Items :
        /\ HasJoin(q, MainItemJoin) => Items[k].id = r["main_item_id"]
        /\ HasJoin(q, ItemsJoin) =>
              \E l \in DOMAIN CategoryItems :
                  /\ CategoryItems[l].category_id = r["id"]
                  /\ CategoryItems[l].item_id = Items[k].id}

\* FROM ... INNER JOIN ...: every row beside the item it is joined with, the
\* rows joined with no item dropped
Joined(q, table) ==
    IF JoinedCols(q) = {} THEN table
    ELSE LET kept == SelectSeq(table, LAMBDA r : JoinedItems(q, r) # {})
         IN [n \in DOMAIN kept |->
                [c \in DOMAIN kept[n] \cup {"test_items.name"} |->
                    IF c = "test_items.name"
                    THEN Items[CHOOSE k \in JoinedItems(q, kept[n]) : TRUE].name
                    ELSE kept[n][c]]]

\* the store accepts the filter: its columns exist and every tuple of a
\* composite membership has one value per column
WhereAccepted(e, q) ==
    \/ q.where = NoFrag
    \/ /\ FragCols(q.where) \subseteq Columns(e) \cup JoinedCols(q)
       /\ q.where.k = "cin" =>
            \A i \in DOMAIN q.values[1] : Len(q.values[1][i]) = Len(q.where.cols)

ColumnsAccepted(e, columns) ==
    \A i \in DOMAIN columns : columns[i] = "*" \/ columns[i] \in Columns(e)

OrderAccepted(e, q) ==
    \A i \in DOMAIN q.order :
        q.order[i].col \in Columns(e) /\ q.order[i].dir \in {"ASC", "DESC"}

\* SELECT on a soft-deletable model sees only the rows not marked deleted
Visible(e, table) ==
    SelectSeq(table, LAMBDA r : ~IsSoftDeletable(e) \/ r[SoftDeleteColumn(e)] = 0)

Matches(q, row) == q.where = NoFrag \/ FragHolds(q.where, q.values, row)

Filter(q, table) == SelectSeq(table, LAMBDA r : Matches(q, r))

RECURSIVE Before(_, _, _, _)
\* row a sorts strictly before row b under the ORDER BY entries from i on
Before(a, b, order, i) ==
    IF i > Len(order) THEN FALSE
    ELSE IF a[order[i].col] # b[order[i].col]
         THEN IF order[i].dir = "ASC"
              THEN a[order[i].col] < b[order[i].col]
              ELSE a[order[i].col] > b[order[i].col]
         ELSE Before(a, b, order, i + 1)

\* ORDER BY: the rows sorted by the entries, equal rows in table order
SortRows(rs, order) ==
    LET p == CHOOSE f \in [DOMAIN rs -> DOMAIN rs] :
                /\ \A i, j \in DOMAIN rs : i # j => f[i] # f[j]
                /\ \A i, j \in DOMAIN rs :
                     i < j => \/ Before(rs[f[i]], rs[f[j]], order, 1)
                              \/ /\ ~Before(rs[f[j]], rs[f[i]], order, 1)
                                 /\ f[i] < f[j]
    IN [i \in DOMAIN rs |-> rs[p[i]]]

Ordered(q, rs) == IF Len(q.order) = 0 THEN rs ELSE SortRows(rs, q.order)

Min(a, b) == IF a < b THEN a ELSE b

\* OFFSET then LIMIT, each rendered only when positive
Cut(q, rs) ==
    LET from == IF q.offset > 0 THEN Min(q.offset, Len(rs)) ELSE 0
        rest == SubSeq(rs, from + 1, Len(rs))
    IN IF q.limit > 0 THEN SubSeq(rest, 1, Min(q.limit, Len(rest))) ELSE rest

\* the selected columns of a row as scanned into the entity, the others
\* left at the zero value
Project(e, q, row) ==
    IF \E i \in DOMAIN q.columns : q.columns[i] = "*"
    THEN [c \in Columns(e) |-> row[c]]
    ELSE [c \in Columns(e) |->
            IF \E i \in DOMAIN q.columns : q.columns[i] = c THEN row[c] ELSE 0]

\* SelectRows in the order of the builder calls: the cut before the ordering
SelectRowsInCallOrder(e, table, q) ==
    LET cut == Ordered(q, Cut(q, Filter(q, Joined(q, Visible(e, table)))))
    IN [i \in DOMAIN cut |-> Project(e, q, cut[i])]

\* the statement a select renders evaluates WHERE, then ORDER BY, then
\* OFFSET/LIMIT, whatever the order of the builder calls
SelectRows(e, table, q) ==
    LET cut == Cut(q, Ordered(q, Filter(q, Joined(q, Visible(e, table)))))
    IN [i \in DOMAIN cut |-> Project(e, q, cut[i])]

\* the failure of a select, "" when it runs
SelectCause(e, q, fail) ==
    IF fail THEN "exec"
    ELSE IF ~JoinsAccepted(q) THEN "join"
    ELSE IF ColumnsAccepted(e, q.columns) /\ WhereAccepted(e, q) /\ OrderAccepted(e, q)
         THEN "" ELSE "column"

\* what a failed Scan leaves in the slice it was given as its Model: the rows
\* it had read when the failure hit (scanned of them), none when the
\* statement was not run
ScanLeft(e, table, q, fail, scanned) ==
    IF fail /\ SelectCause(e, q, FALSE) = ""
    THEN SubSeq(SelectRows(e, table, q), 1,
                Min(scanned, Len(SelectRows(e, table, q))))
    ELSE <<>>

\* -------------------------------------------------------- writes on the table
\* the key of a row: its values on the pk columns
RowKey(e, row) == [c \in PkColumns(e) |-> row[c]]

RowKeys(e, table) == {RowKey(e, table[i]) : i \in DOMAIN table}

RECURSIVE FreeId(_, _)
\* the id the store generates for an inserted row whose id is 0
FreeId(table, n) ==
    IF \E i \in DOMAIN table : table[i]["id"] = n THEN FreeId(table, n + 1) ELSE n

\* the row the store keeps for an inserted entity
StoredRow(e, table, entity) ==
    IF "id" \in Columns(e) /\ entity["id"] = 0
    THEN [entity EXCEPT !["id"] = FreeId(table, 1)]
    ELSE entity

RECURSIVE InsertAll(_, _, _, _)
\* INSERT ... VALUES (...), (...): the table with the rows appended in order
InsertAll(e, table, data, i) ==
    IF i > Len(data) THEN table
    ELSE InsertAll(e, Append(table, StoredRow(e, table, data[i])), data, i + 1)

\* the rows an insert adds, in the order of the entities
Inserted(e, table, data) ==
    SubSeq(InsertAll(e, table, data, 1), Len(table) + 1, Len(table) + Len(data))

\* the failure of an insert, "" when it runs: a key that is already there
InsertCause(e, table, q, fail) ==
    IF fail THEN "exec"
    ELSE IF ~ColumnsAccepted(e, q.returning) THEN "column"
    ELSE IF Cardinality(RowKeys(e, InsertAll(e, table, q.data, 1)))
                < Len(table) + Len(q.data)
         THEN "duplicate key" ELSE ""

\* Returned with nothing scanned back: the entity as it was supplied
ReturnedAsSupplied(e, q, entity, row) == entity

\* RETURNING: the entity with the returned columns overwritten from the row
Returned(e, q, entity, row) ==
    [c \in Columns(e) |->
        IF \E i \in DOMAIN q.returning : q.returning[i] \in {"*", c}
        THEN row[c] ELSE entity[c]]

\* UPDATE ... SET set = entity's values WHERE pk = entity's pk (WherePK); on a
\* soft-deletable model the rows marked deleted are out of reach
UpdateRow(e, q, row) ==
    IF /\ RowKey(e, row) = RowKey(e, q.data[1])
       /\ IsSoftDeletable(e) => row[SoftDeleteColumn(e)] = 0
    THEN [c \in Columns(e) |->
            IF \E i \in DOMAIN q.set : q.set[i] = c THEN q.data[1][c] ELSE row[c]]
    ELSE row

UpdateAll(e, table, q) == [i \in DOMAIN table |-> UpdateRow(e, q, table[i])]

UpdateCause(e, q, fail) ==
    IF fail THEN "exec"
    ELSE IF ColumnsAccepted(e, q.returning) /\ ColumnsAccepted(e, q.set)
         THEN "" ELSE "column"

\* Update and Delete queries require at least one Where
DeleteCause(e, q, fail) ==
    IF fail THEN "exec"
    ELSE IF q.where = NoFrag THEN "no where"
    ELSE IF WhereAccepted(e, q) THEN "" ELSE "column"

\* SoftTargets without the "deleted_at IS NULL" guard
SoftTargetsUnguarded(e, table, q) == {i \in DOMAIN table : Matches(q, table[i])}

\* the rows a soft delete marks: the matching rows not marked yet
SoftTargets(e, table, q) ==
    {i \in DOMAIN table : Matches(q, table[i]) /\ table[i][SoftDeleteColumn(e)] = 0}

\* the rows a real delete removes: the matching rows
HardTargets(e, table, q) == {i \in DOMAIN table : Matches(q, table[i])}

\* Exec of a delete query.  Without ForceDelete a soft-deletable model renders
\* UPDATE ... SET deleted_at = now WHERE ... AND deleted_at IS NULL.
DeleteRows(e, table, q, now) ==
    IF q.verb = "DELETE" /\ IsSoftDeletable(e)
    THEN [i \in DOMAIN table |->
            IF i \in SoftTargets(e, table, q)
            THEN [table[i] EXCEPT ![SoftDeleteColumn(e)] = now]
            ELSE table[i]]
    ELSE SelectSeq(table, LAMBDA r : ~Matches(q, r))

\* res.RowsAffected()
RowsAffected(e, table, q) ==
    IF q.verb = "DELETE" /\ IsSoftDeletable(e)
    THEN Cardinality(SoftTargets(e, table, q))
    ELSE Cardinality(HardTargets(e, table, q))

\* ------------------------------------------------------ connection routing
\* Route with the nil check dropped: the pool is always asked for
RouteAlwaysPool(tx, pool) == [executor |-> pool, consulted |-> {pool}]

\* if tx == nil { tx = r.ConnSet.<pool>() }: the executor the statement runs
\* on and the pools of the ConnSet the call asked for
Route(tx, pool) ==
    [executor |-> IF tx = NilTx THEN pool ELSE tx,
     consulted |-> IF tx = NilTx THEN {pool} ELSE {}]

\* fmt.Errorf("<prefix>: %w", err)
Wrap(prefix, cause) ==
    IF cause = "" THEN NoErr ELSE [prefix |-> prefix, cause |-> cause]

\* the error of res.RowsAffected(), returned without a prefix
RowsAffectedErr == [prefix |-> "", cause |-> "rows affected"]

\* the statements a call sends: the one terminal Scan, Exec, Count or Exists
\* of its query, on the routed executor; none when the call never gets there
Statements(route, q) ==
    IF route.executor = "" THEN <<>>
    ELSE <<[executor |-> route.executor, verb |-> q.verb, rows |-> Len(q.data)]>>

\* what one call leaves behind: the executor and statement it used, the
\* statements it sent, its results and the table afterwards
Outcome(route, q, table) ==
    [executor |-> route.executor, consulted |-> route.consulted, stmt |-> q,
     issued |-> Statements(route, q),
     entity |-> NilEntity, entities |-> <<>>, count |-> 0, flag |-> FALSE,
     err |-> NoErr, table |-> table, panicked |-> FALSE]

\* --------------------------------------------------------- the operations
FindOneExecutor(tx) == Route(tx, "ReadPool")

\* FindOne that insists on a single row: a second matching row is a failure
FindOneSingle(e, table, tx, columns, spec, fail) ==
    LET q == WithSpec(e, QColumn(NewQuery("SELECT"), columns), spec)
        bad == SelectCause(e, q, fail)
        out == IF bad = "" THEN SelectRows(e, table, q) ELSE <<>>
        cause == IF bad # "" THEN bad
                 ELSE IF Len(out) = 0 THEN "sql.ErrNoRows"
                 ELSE IF Len(out) > 1 THEN "too many rows" ELSE ""
        o == Outcome(FindOneExecutor(tx), q, table)
    IN IF cause # ""
       THEN [o EXCEPT !.err = Wrap("find one", cause)]
       ELSE [o EXCEPT !.entity = <<out[1]>>]

\* FindOne with the no-rows failure swallowed: a nil entity without an error
FindOneSwallow(e, table, tx, columns, spec, fail) ==
    LET q == WithSpec(e, QColumn(NewQuery("SELECT"), columns), spec)
        bad == SelectCause(e, q, fail)
        out == IF bad = "" THEN SelectRows(e, table, q) ELSE <<>>
        o == Outcome(FindOneExecutor(tx), q, table)
    IN IF bad # ""
       THEN [o EXCEPT !.err = Wrap("find one", bad)]
       ELSE IF Len(out) = 0 THEN o ELSE [o EXCEPT !.entity = <<out[1]>>]

FindOne(e, table, tx, columns, spec, fail) ==
    LET q == WithSpec(e, QColumn(NewQuery("SELECT"), columns), spec)
        bad == SelectCause(e, q, fail)
        out == IF bad = "" THEN SelectRows(e, table, q) ELSE <<>>
        \* Scan into a single struct: the first row, sql.ErrNoRows without one
        cause == IF bad = "" /\ Len(out) = 0 THEN "sql.ErrNoRows" ELSE bad
        o == Outcome(FindOneExecutor(tx), q, table)
    IN IF cause # ""
       THEN [o EXCEPT !.err = Wrap("find one", cause)]
       ELSE [o EXCEPT !.entity = <<out[1]>>]

\* PkSpec ranging over the key itself, last field first, not over pk.Sorted()
PkSpecUnsorted(pk) ==
    NewAnd([i \in 1..Len(SortedKeys(pk)) |->
              LET kk == SortedKeys(pk)[Len(SortedKeys(pk)) + 1 - i]
              IN NewEqual(kk, pk[kk])])

\* spec := NewAnd(); for each entry of pk.Sorted(): spec.Append(NewEqual(k, v))
PkSpec(pk) ==
    NewAnd([i \in 1..Len(Sorted(pk)) |->
              LET kk == CHOOSE k \in DOMAIN Sorted(pk)[i] : TRUE
              IN NewEqual(kk, Sorted(pk)[i][kk])])

FindOneByPk(e, table, tx, columns, pk, fail) ==
    FindOne(e, table, tx, columns, PkSpec(pk), fail)

FindAllExecutor(tx) == Route(tx, "ReadPool")

\* on an error the slice Scan was filling is returned as Scan left it
FindAll(e, table, tx, columns, spec, fail, scanned) ==
    LET q == WithSpec(e, QColumn(NewQuery("SELECT"), columns), spec)
        cause == SelectCause(e, q, fail)
        o == Outcome(FindAllExecutor(tx), q, table)
    IN IF cause # ""
       THEN [o EXCEPT !.err = Wrap("find all", cause),
                      !.entities = ScanLeft(e, table, q, fail, scanned)]
       ELSE [o EXCEPT !.entities = SelectRows(e, table, q)]

\* if page != nil && !page.IsEmpty() { query.Limit(...); query.Offset(...) }
WithPage(q, page) ==
    IF HasPage(page) THEN QOffset(QLimit(q, GetSize(page)), GetOffset(page)) ELSE q

\* if sort != nil && !sort.IsEmpty() { query.OrderExpr(sort.OrderBy(r.Meta)) }
WithSort(e, q, sort, order) ==
    IF HasSort(sort) THEN QOrderExpr(q, OrderBy(e, sort, order)) ELSE q

FindPageExecutor(tx) == Route(tx, "ReadPool")

FindPage(e, table, tx, columns, spec, page, sort, order, fail, scanned) ==
    LET q == WithSort(e,
                 WithPage(WithSpec(e, QColumn(NewQuery("SELECT"), columns), spec),
                          page),
                 sort, order)
        cause == SelectCause(e, q, fail)
        o == Outcome(FindPageExecutor(tx), q, table)
    IN IF cause # ""
       THEN [o EXCEPT !.err = Wrap("find page", cause),
                      !.entities = ScanLeft(e, table, q, fail, scanned)]
       ELSE [o EXCEPT !.entities = SelectRows(e, table, q)]

\* SortedValues ranging over the key itself, last field first
SortedValuesUnsorted(pk) ==
    [j \in 1..Len(SortedKeys(pk)) |-> pk[SortedKeys(pk)[Len(SortedKeys(pk)) + 1 - j]]]

\* the values of a key in pk.Sorted() order: one tuple of a composite batch
SortedValues(pk) ==
    [j \in 1..Len(SortedKeys(pk)) |-> pk[SortedKeys(pk)[j]]]

RECURSIVE PksValues(_, _, _, _)
\* the loop over pks: one value group per key when the first key is
\* composite, else every value of every key (orders[i]: the order the range
\* over key i visits its fields)
PksValues(pks, orders, composite, i) ==
    IF i > Len(pks) THEN <<>>
    ELSE (IF composite
          THEN <<SortedValues(pks[i])>>
          ELSE [j \in 1..Cardinality(DOMAIN pks[i]) |-> pks[i][orders[i][j]]])
         \o PksValues(pks, orders, composite, i + 1)

\* isComposite and keys are taken from the first key of the batch
PksComposite(pks) == Len(pks) > 0 /\ IsComposite(pks[1])

\* PksKeys without the i == 0 check: the keys of the last key of the batch
PksKeysLast(pks) == IF Len(pks) > 0 THEN SortedKeys(pks[Len(pks)]) ELSE <<>>
PksKeys(pks) == IF Len(pks) > 0 THEN SortedKeys(pks[1]) ELSE <<>>

\* keys[0] on an empty keys slice: index out of range
PksPanics(pks) == ~PksComposite(pks) /\ Len(PksKeys(pks)) = 0

PksSpec(pks, orders) ==
    IF PksComposite(pks)
    THEN NewCompositeIn(PksKeys(pks), PksValues(pks, orders, TRUE, 1))
    ELSE NewIn(PksKeys(pks)[1], PksValues(pks, orders, FALSE, 1))

FindAllByPks(e, table, tx, columns, pks, orders, fail, scanned) ==
    IF PksPanics(pks)
    THEN [Outcome([executor |-> "", consulted |-> {}], NewQuery(""), table)
            EXCEPT !.panicked = TRUE]
    ELSE FindAll(e, table, tx, columns, PksSpec(pks, orders), fail, scanned)

CountExecutor(tx) == Route(tx, "ReadPool")

\* Count without the specifier block
CountUnfiltered(e, table, tx, spec, fail) ==
    LET q == NewQuery("COUNT")
        cause == SelectCause(e, q, fail)
        o == Outcome(CountExecutor(tx), q, table)
    IN IF cause # ""
       THEN [o EXCEPT !.err = Wrap("count", cause)]
       ELSE [o EXCEPT !.count = Len(Filter(q, Joined(q, Visible(e, table))))]

Count(e, table, tx, spec, fail) ==
    LET q == WithSpec(e, NewQuery("COUNT"), spec)
        cause == SelectCause(e, q, fail)
        o == Outcome(CountExecutor(tx), q, table)
    IN IF cause # ""
       THEN [o EXCEPT !.err = Wrap("count", cause)]
       ELSE [o EXCEPT !.count = Len(Filter(q, Joined(q, Visible(e, table))))]

CreateOneExecutor(tx) == Route(tx, "WritePool")

CreateOne(e, table, tx, entity, columns, fail) ==
    LET q == QReturning(QModel(NewQuery("INSERT"), <<entity>>), columns)
        cause == InsertCause(e, table, q, fail)
        o == Outcome(CreateOneExecutor(tx), q, table)
    IN IF cause # ""
       THEN [o EXCEPT !.err = Wrap("crate one", cause)]
       ELSE [o EXCEPT !.entity = <<Returned(e, q, entity, Inserted(e, table, q.data)[1])>>,
                      !.table = InsertAll(e, table, q.data, 1)]

CreateAllExecutor(tx) == Route(tx, "WritePool")

CreateAll(e, table, tx, entities, columns, fail) ==
    LET q == QReturning(QModel(NewQuery("INSERT"), entities), columns)
        cause == InsertCause(e, table, q, fail)
        o == Outcome(CreateAllExecutor(tx), q, table)
    IN IF cause # ""
       THEN [o EXCEPT !.entities = entities, !.err = Wrap("create one", cause)]
       ELSE [o EXCEPT !.entities =
                        [i \in DOMAIN entities |->
                            Returned(e, q, entities[i], Inserted(e, table, q.data)[i])],
                      !.table = InsertAll(e, table, q.data, 1)]

\* Column(columnsToUpdate...): without columns every non-pk column is set
UpdateColumns(e, columnsToUpdate) ==
    IF Len(columnsToUpdate) = 0
    THEN SelectSeq(<<"name", "complex_name", "main_item_id", "deleted_at">>,
                   LAMBDA c : c \in Columns(e) \ PkColumns(e))
    ELSE columnsToUpdate

UpdateOneExecutor(tx) == Route(tx, "WritePool")

UpdateOne(e, table, tx, entity, columnsToUpdate, columns, fail) ==
    LET q == QReturning(QSet(QModel(NewQuery("UPDATE"), <<entity>>),
                             UpdateColumns(e, columnsToUpdate)), columns)
        cause == UpdateCause(e, q, fail)
        o == Outcome(UpdateOneExecutor(tx), q, table)
        after == UpdateAll(e, table, q)
        hit == {i \in DOMAIN table : after[i] # table[i] \/
                    /\ RowKey(e, table[i]) = RowKey(e, entity)
                    /\ IsSoftDeletable(e) => table[i][SoftDeleteColumn(e)] = 0}
    IN IF cause # ""
       THEN [o EXCEPT !.entity = <<entity>>, !.err = Wrap("update one", cause)]
       ELSE [o EXCEPT !.entity =
                        IF hit = {} THEN <<entity>>
                        ELSE <<Returned(e, q, entity, after[CHOOSE i \in hit : TRUE])>>,
                      !.table = after]

ForceDeleteExecutor(tx) == Route(tx, "WritePool")

\* rowsFail: res.RowsAffected() fails after the statement has run; its error
\* is returned as it is, with the count the driver gives beside it (0)
ForceDelete(e, table, tx, spec, fail, rowsFail) ==
    LET q == WithSpecNoJoins(e, NewQuery("FORCEDELETE"), spec)
        cause == DeleteCause(e, q, fail)
        o == Outcome(ForceDeleteExecutor(tx), q, table)
    IN IF cause # ""
       THEN [o EXCEPT !.err = Wrap("force delete", cause)]
       ELSE IF rowsFail
       THEN [o EXCEPT !.err = RowsAffectedErr,
                      !.table = DeleteRows(e, table, q, 0)]
       ELSE [o EXCEPT !.count = RowsAffected(e, table, q),
                      !.table = DeleteRows(e, table, q, 0)]

\* DeleteExecutor taking the read pool
DeleteExecutorRead(tx) == Route(tx, "ReadPool")

DeleteExecutor(tx) == Route(tx, "WritePool")

\* Delete with ForceDelete() on its query
DeleteForced(e, table, tx, spec, now, fail, rowsFail) ==
    LET q == WithSpecNoJoins(e, NewQuery("FORCEDELETE"), spec)
        cause == DeleteCause(e, q, fail)
        o == Outcome(DeleteExecutor(tx), q, table)
    IN IF cause # ""
       THEN [o EXCEPT !.err = Wrap("delete", cause)]
       ELSE IF rowsFail
       THEN [o EXCEPT !.err = RowsAffectedErr,
                      !.table = DeleteRows(e, table, q, now)]
       ELSE [o EXCEPT !.count = RowsAffected(e, table, q),
                      !.table = DeleteRows(e, table, q, now)]

Delete(e, table, tx, spec, now, fail, rowsFail) ==
    LET q == WithSpecNoJoins(e, NewQuery("DELETE"), spec)
        cause == DeleteCause(e, q, fail)
        o == Outcome(DeleteExecutor(tx), q, table)
    IN IF cause # ""
       THEN [o EXCEPT !.err = Wrap("delete", cause)]
       ELSE IF rowsFail
       THEN [o EXCEPT !.err = RowsAffectedErr,
                      !.table = DeleteRows(e, table, q, now)]
       ELSE [o EXCEPT !.count = RowsAffected(e, table, q),
                      !.table = DeleteRows(e, table, q, now)]

IsColumnValueUniqueExecutor(tx) == Route(tx, "ReadPool")

\* Column("id"), Where(column+" = ?", value): the caller's column is used as
\* it is, not resolved through Meta
IsColumnValueUnique(e, table, tx, column, value, fail) ==
    LET q == QWhere(QColumn(NewQuery("EXISTS"), <<"id">>),
                    [k |-> "raw", col |-> column], <<value>>)
        cause == SelectCause(e, q, fail)
        o == Outcome(IsColumnValueUniqueExecutor(tx), q, table)
    IN IF cause # ""
       THEN [o EXCEPT !.err = Wrap("is column value unique", cause)]
       ELSE [o EXCEPT !.flag = Len(Filter(q, Joined(q, Visible(e, table)))) > 0]

\* ------------------------------------------------------- what callers pass
Txs == {NilTx, "tx"}

\* the presenter field of a pk column and of a data column of each entity
KeyField(e) == IF e = "TestComplexEnt" THEN "firstId" ELSE "id"
DataField(e) ==
    CASE e = "TestComplexEnt" -> "complexName"
      [] e = "TestCategoryEnt" -> "mainItemId"
      [] OTHER -> "name"

\* the fields callers build primary keys from
KeyFields(e) == IF e = "TestComplexEnt" THEN <<"firstId", "secondId">> ELSE <<"id", "name">>

ColumnChoices(e) == {<<"*">>, <<ResolveColumn(e, KeyField(e))>>}

\* a specifier on a field reached through a relation, for the entity that
\* has relations
RelationSpecChoices(e) ==
    IF e = "TestCategoryEnt"
    THEN {NewEqual("Category.MainItem.name", 2), NewEqual("Category.Items.name", 2),
          NewAnd(<<NewEqual("Category.Items.name", 2),
                   NewEqual("Category.Items.name", 2)>>)}
    ELSE {}

SpecChoices(e) ==
    {NilSpec, NewAnd(<<>>), NewEqual("nope", 1), NewEqual(KeyField(e), 1),
     NewIn(DataField(e), [i \in Vals |-> i]),
     NewAnd(<<NewEqual(KeyField(e), 1), NewEqual(DataField(e), 1)>>)}
    \cup {NewEqual(DataField(e), v) : v \in Vals}
    \cup RelationSpecChoices(e)

PageSpecChoices(e) ==
    {NilSpec, NewAnd(<<>>), NewEqual(DataField(e), 1)} \cup RelationSpecChoices(e)

EmptyPk == [f \in {} |-> 0]

KeyChoices(e) ==
    {EmptyPk}
    \cup {[f \in {KeyFields(e)[i]} |-> v] : i \in 1..2, v \in Vals}
    \cup {pk \in [{KeyFields(e)[1], KeyFields(e)[2]} -> Vals] :
             pk[KeyFields(e)[1]] # pk[KeyFields(e)[2]]}

\* the batches callers pass: every batch of up to two keys, and the longer
\* ones whose keys all have the fields of the first
KeyLists(e) ==
    UNION {{pks \in [1..n -> KeyChoices(e)] :
               n > 2 => \A i \in 1..n : DOMAIN pks[i] = DOMAIN pks[1]} :
           n \in 0..MaxPks}

RECURSIVE AllOrders(_, _)
\* one range order per key of the batch
AllOrders(pks, i) ==
    IF i > Len(pks) THEN {<<>>}
    ELSE {<<o>> \o rest : o \in RangeOrders(pks[i]), rest \in AllOrders(pks, i + 1)}

\* the range order is observable only where the loop ranges over the key
OrderChoices(pks) ==
    IF PksComposite(pks)
    THEN {[i \in 1..Len(pks) |-> SortedKeys(pks[i])]}
    ELSE AllOrders(pks, 1)

\* the entities callers write: the id may be left 0 for the store to fill, a
\* soft-deletable entity is written unmarked; the soft-deletable and the
\* category entity are written with one name, the composite one with three of
\* its four keys
EntityChoices(e) ==
    {r \in [Columns(e) -> {0} \cup Vals] :
        /\ \A c \in Columns(e) \ {"id", "deleted_at"} : r[c] # 0
        /\ IsSoftDeletable(e) => r["deleted_at"] = 0 /\ r["name"] = 1
        /\ e = "TestComplexEnt" => ~(r["first_id"] = 2 /\ r["second_id"] = 2)
        /\ e = "TestCategoryEnt" => r["name"] = 1}

EntityLists(e, n) == UNION {[1..k -> EntityChoices(e)] : k \in 1..n}

PageChoices == {NilPage} \cup {NewPager(s, n) : s \in 0..MaxPage, n \in 0..MaxPage}

\* the WithSort call sequences callers build Sorters with
SortCallChoices(e) ==
    LET pair(f, d) == [field |-> f, dir |-> d]
    IN {<<>>,
        <<pair(KeyField(e), "desc")>>,
        <<pair(DataField(e), "asc")>>,
        <<pair(DataField(e), "DESC")>>,
        <<pair(KeyField(e), "DESC"), pair(DataField(e), "asc")>>,
        <<pair(DataField(e), "asc"), pair(KeyField(e), "DESC")>>,
        <<pair(DataField(e), "asc"), pair(DataField(e), "DESC")>>}

SortChoices(e) == {NilSort} \cup {SorterOf(c, Len(c)) : c \in SortCallChoices(e)}

\* how many rows a Scan that fails has read when the failure hits: none, or
\* the first one
ScanChoices(table, fail) == IF fail THEN {0, Min(1, Len(table))} ELSE {0}

\* time.Now() of a soft delete: the first tick later than every marker already
\* set
NowChoices(e, table) ==
    IF IsSoftDeletable(e)
    THEN {t \in 1..MaxClock :
            /\ \A i \in DOMAIN table : table[i]["deleted_at"] < t
            /\ t = 1 \/ \E i \in DOMAIN table : table[i]["deleted_at"] = t - 1}
    ELSE {0}

\* ------------------------------------------------------------------- state
VARIABLES
    ent,    \* the entity type E the repository is instantiated for (its Meta)
    rows,   \* the entity's table in the store
    last,   \* the call that has just returned, op "" when none is pending
    repo,   \* the fields of the BunCrudRepository value the calls are made on
    inflight \* the calls concurrent callers have in flight, each with its locals

vars == <<ent, rows, last, repo, inflight>>

NoArgs ==
    [columns |-> <<>>, spec |-> NilSpec, pk |-> EmptyPk, pks |-> <<>>,
     page |-> NilPage, sort |-> NilSort, sortCalls |-> <<>>, rowsFail |-> FALSE,
     scanned |-> 0,
     entities |-> <<>>, set |-> <<>>,
     column |-> "", value |-> 0]

Idle ==
    [op |-> "", tx |-> NilTx, args |-> NoArgs, fail |-> FALSE, before |-> <<>>,
     repeat |-> FALSE,
     out |-> Outcome([executor |-> "", consulted |-> {}], NewQuery(""), <<>>)]

\* the goroutines that call the one repository at the same time
Callers == {"a", "b"}

\* BunCrudRepository{ConnSet: ..., Meta: ...} as the constructor leaves it
NewRepo(e) ==
    [ConnSet |-> [ReadPool |-> "ReadPool", WritePool |-> "WritePool"], Meta |-> e]

\* a caller that has no call in flight
NoCall ==
    [pc |-> "idle", op |-> "", tx |-> NilTx, args |-> NoArgs, executor |-> "",
     stmt |-> NewQuery("")]

Init ==
    /\ ent \in Entities
    /\ rows = <<>>
    /\ last = Idle
    /\ repo = NewRepo(ent)
    /\ inflight = [c \in Callers |-> NoCall]

\* a call runs on the table as it is and leaves its outcome behind (fail: the
\* executor fails during the call, for a reason of its own)
Call(op, tx, args, fail, out) ==
    /\ last' = [op |-> op, tx |-> tx, args |-> args, fail |-> fail,
                before |-> rows, repeat |-> FALSE, out |-> out]
    /\ rows' = out.table
    /\ UNCHANGED <<ent, repo, inflight>>

\* ----------------------------------------------------------------- actions
DoFindOne ==
    /\ last.op = ""
    /\ \E tx \in Txs, columns \in ColumnChoices(ent), spec \in SpecChoices(ent),
       fail \in BOOLEAN :
        Call("FindOne", tx, [NoArgs EXCEPT !.columns = columns, !.spec = spec], fail,
             FindOne(ent, rows, tx, columns, spec, fail))

DoFindOneByPk ==
    /\ last.op = ""
    /\ \E tx \in Txs, columns \in ColumnChoices(ent), pk \in KeyChoices(ent),
       fail \in BOOLEAN :
        Call("FindOneByPk", tx, [NoArgs EXCEPT !.columns = columns, !.pk = pk], fail,
             FindOneByPk(ent, rows, tx, columns, pk, fail))

DoFindAll ==
    /\ last.op = ""
    /\ \E tx \in Txs, columns \in ColumnChoices(ent), spec \in SpecChoices(ent),
       fail \in BOOLEAN :
        \E scanned \in ScanChoices(rows, fail) :
            Call("FindAll", tx,
                 [NoArgs EXCEPT !.columns = columns, !.spec = spec,
                                !.scanned = scanned], fail,
                 FindAll(ent, rows, tx, columns, spec, fail, scanned))

DoFindPage ==
    /\ last.op = ""
    /\ \E tx \in Txs, spec \in PageSpecChoices(ent), page \in PageChoices,
       calls \in SortCallChoices(ent), fail \in BOOLEAN :
        \E sort \in {SorterOf(calls, Len(calls))} \cup
                     (IF calls = <<>> THEN {NilSort} ELSE {}) :
        \E order \in RangeOrders(sort.directions),
           scanned \in ScanChoices(rows, fail) :
            \* a failing executor is met on the statements without ordering
            /\ fail => sort = NilSort /\ page \in {NilPage, NewPager(1, 0)}
            /\ Call("FindPage", tx,
                 [NoArgs EXCEPT !.columns = <<"*">>, !.spec = spec, !.page = page,
                                !.sort = sort, !.sortCalls = calls,
                                !.scanned = scanned], fail,
                 FindPage(ent, rows, tx, <<"*">>, spec, page, sort, order, fail,
                          scanned))

DoFindAllByPks ==
    /\ last.op = ""
    /\ \E tx \in Txs, pks \in KeyLists(ent), fail \in BOOLEAN :
        \E orders \in OrderChoices(pks), scanned \in ScanChoices(rows, fail) :
            Call("FindAllByPks", tx,
                 [NoArgs EXCEPT !.columns = <<"*">>, !.pks = pks,
                                !.scanned = scanned], fail,
                 FindAllByPks(ent, rows, tx, <<"*">>, pks, orders, fail, scanned))

DoCount ==
    /\ last.op = ""
    /\ \E tx \in Txs, spec \in SpecChoices(ent), fail \in BOOLEAN :
        Call("Count", tx, [NoArgs EXCEPT !.spec = spec], fail,
             Count(ent, rows, tx, spec, fail))

DoCreateOne ==
    /\ last.op = ""
    /\ Len(rows) < MaxRows
    /\ \E tx \in Txs, entity \in EntityChoices(ent),
          columns \in ColumnChoices(ent) \cup {<<ResolveColumn(ent, DataField(ent))>>},
          fail \in BOOLEAN :
        Call("CreateOne", tx,
             [NoArgs EXCEPT !.entities = <<entity>>, !.columns = columns], fail,
             CreateOne(ent, rows, tx, entity, columns, fail))

DoCreateAll ==
    /\ last.op = ""
    /\ Len(rows) < MaxRows
    /\ \E tx \in Txs, entities \in EntityLists(ent, MaxRows - Len(rows)),
          fail \in BOOLEAN :
        Call("CreateAll", tx,
             [NoArgs EXCEPT !.entities = entities, !.columns = <<"*">>], fail,
             CreateAll(ent, rows, tx, entities, <<"*">>, fail))

DoUpdateOne ==
    /\ last.op = ""
    /\ \E tx \in Txs, entity \in EntityChoices(ent),
       set \in {<<>>, <<ResolveColumn(ent, DataField(ent))>>}, fail \in BOOLEAN :
        Call("UpdateOne", tx,
             [NoArgs EXCEPT !.entities = <<entity>>, !.set = set, !.columns = <<"*">>], fail,
             UpdateOne(ent, rows, tx, entity, set, <<"*">>, fail))

DoForceDelete ==
    /\ last.op = ""
    /\ \E tx \in Txs, spec \in SpecChoices(ent), fail \in BOOLEAN,
       rowsFail \in BOOLEAN :
        Call("ForceDelete", tx,
             [NoArgs EXCEPT !.spec = spec, !.rowsFail = rowsFail], fail,
             ForceDelete(ent, rows, tx, spec, fail, rowsFail))

DoDelete ==
    /\ last.op = ""
    /\ \E tx \in Txs, spec \in SpecChoices(ent), now \in NowChoices(ent, rows),
       fail \in BOOLEAN, rowsFail \in BOOLEAN :
        Call("Delete", tx, [NoArgs EXCEPT !.spec = spec, !.rowsFail = rowsFail],
             fail, Delete(ent, rows, tx, spec, now, fail, rowsFail))

\* the caller repeats the Delete whose statement has just run, nothing in
\* between
DoDeleteAgain ==
    /\ last.op = "Delete"
    /\ ~last.repeat
    /\ last.out.err \in {NoErr, RowsAffectedErr}
    /\ \E now \in NowChoices(ent, rows), fail \in BOOLEAN, rowsFail \in BOOLEAN :
        /\ last' = [last EXCEPT !.before = rows, !.repeat = TRUE, !.fail = fail,
                       !.args.rowsFail = rowsFail,
                       !.out = Delete(ent, rows, last.tx, last.args.spec, now,
                                      fail, rowsFail)]
        /\ rows' = last'.out.table
        /\ UNCHANGED <<ent, repo, inflight>>

DoIsColumnValueUnique ==
    /\ last.op = ""
    /\ \E tx \in Txs, column \in {"id", "nope", ResolveColumn(ent, DataField(ent))},
       value \in Vals, fail \in BOOLEAN :
        Call("IsColumnValueUnique", tx,
             [NoArgs EXCEPT !.column = column, !.value = value], fail,
             IsColumnValueUnique(ent, rows, tx, column, value, fail))

\* the caller takes the result; the repository keeps nothing of the call
Return ==
    /\ last.op # ""
    /\ last' = Idle
    /\ UNCHANGED <<ent, rows, repo, inflight>>

Next ==
    \/ DoFindOne
    \/ DoFindOneByPk
    \/ DoFindAll
    \/ DoFindPage
    \/ DoFindAllByPks
    \/ DoCount
    \/ DoCreateOne
    \/ DoCreateAll
    \/ DoUpdateOne
    \/ DoForceDelete
    \/ DoDelete
    \/ DoDeleteAgain
    \/ DoIsColumnValueUnique
    \/ Return

Spec == Init /\ [][Next]_vars

\* ------------------------------------------- concurrent calls on one value
\* Several goroutines call the one repository value at the same time. Each
\* call goes through the steps of its method in order: the nil check on tx and
\* the pool of r.ConnSet, the query built from r.Meta and the arguments, the
\* terminal Scan, Exec, Count or Exists. Steps of different calls interleave;
\* a statement runs on the store in one piece.

\* one method of the CrudRepository interface on a given table; the executor
\* works and the maps of the arguments have a single field, so nothing but
\* the arguments and the table decides the outcome
Run(e, table, op, tx, args, now) ==
    CASE op = "FindOne" -> FindOne(e, table, tx, args.columns, args.spec, FALSE)
      [] op = "FindOneByPk" ->
            FindOneByPk(e, table, tx, args.columns, args.pk, FALSE)
      [] op = "FindAll" -> FindAll(e, table, tx, args.columns, args.spec, FALSE, 0)
      [] op = "FindPage" ->
            FindPage(e, table, tx, args.columns, args.spec, args.page, args.sort,
                     CHOOSE o \in RangeOrders(args.sort.directions) : TRUE,
                     FALSE, 0)
      [] op = "FindAllByPks" ->
            FindAllByPks(e, table, tx, args.columns, args.pks,
                         CHOOSE o \in OrderChoices(args.pks) : TRUE, FALSE, 0)
      [] op = "Count" -> Count(e, table, tx, args.spec, FALSE)
      [] op = "CreateOne" ->
            CreateOne(e, table, tx, args.entities[1], args.columns, FALSE)
      [] op = "CreateAll" ->
            CreateAll(e, table, tx, args.entities, args.columns, FALSE)
      [] op = "UpdateOne" ->
            UpdateOne(e, table, tx, args.entities[1], args.set, args.columns, FALSE)
      [] op = "ForceDelete" -> ForceDelete(e, table, tx, args.spec, FALSE, FALSE)
      [] op = "Delete" -> Delete(e, table, tx, args.spec, now, FALSE, FALSE)
      [] op = "IsColumnValueUnique" ->
            IsColumnValueUnique(e, table, tx, args.column, args.value, FALSE)

\* the calls the goroutines make: every method once on the pools, and FindOne
\* and CreateOne a second time in a transaction with other arguments
ConcChoices(e) ==
    LET call(op, tx, args) == [op |-> op, tx |-> tx, args |-> args]
        one == CHOOSE r \in EntityChoices(e) : r[ResolveColumn(e, KeyField(e))] = 1
        two == CHOOSE r \in EntityChoices(e) : r[ResolveColumn(e, KeyField(e))] = 2
        all == [NoArgs EXCEPT !.columns = <<"*">>]
    IN {call("FindOne", NilTx, [all EXCEPT !.spec = NewEqual(KeyField(e), 1)]),
        call("FindOne", "tx",
             [all EXCEPT !.columns = <<ResolveColumn(e, KeyField(e))>>,
                         !.spec = NewEqual(DataField(e), 2)]),
        call("FindOneByPk", NilTx,
             [all EXCEPT !.pk = [f \in {KeyFields(e)[1]} |-> 1]]),
        call("FindAll", NilTx, all),
        call("FindPage", NilTx,
             [all EXCEPT !.spec = NewEqual(DataField(e), 1),
                         !.page = NewPager(1, 1),
                         !.sort = SorterOf(<<[field |-> KeyField(e), dir |-> "desc"]>>, 1)]),
        call("FindAllByPks", NilTx,
             [all EXCEPT !.pks = <<[f \in {KeyFields(e)[1]} |-> 2]>>]),
        call("Count", NilTx, [NoArgs EXCEPT !.spec = NewAnd(<<>>)]),
        call("CreateOne", NilTx, [all EXCEPT !.entities = <<one>>]),
        call("CreateOne", "tx", [all EXCEPT !.entities = <<two>>]),
        call("CreateAll", NilTx, [all EXCEPT !.entities = <<two>>]),
        call("UpdateOne", NilTx,
             [all EXCEPT !.entities = <<one>>,
                         !.set = <<ResolveColumn(e, DataField(e))>>]),
        call("ForceDelete", NilTx, [NoArgs EXCEPT !.spec = NewEqual(KeyField(e), 2)]),
        call("Delete", NilTx, [NoArgs EXCEPT !.spec = NewEqual(KeyField(e), 1)]),
        call("IsColumnValueUnique", NilTx,
             [NoArgs EXCEPT !.column = "id", !.value = 1])}

\* BuildArgs reading a variable the calls share: the arguments of another
\* call of the same method that is in flight, when there is one
BuildArgsShared(cs, c) ==
    LET others == {d \in Callers \ {c} : cs[d].op = cs[c].op}
    IN IF others = {} THEN cs[c].args ELSE cs[CHOOSE d \in others : TRUE].args

\* the arguments a call builds its statement from: its own parameters and
\* locals (columns, spec, pk, keys, entity ...), which no other call reaches
BuildArgs(cs, c) == cs[c].args

\* a goroutine calls a method of the repository
Enter(c) ==
    /\ inflight[c].pc = "idle"
    /\ \E ch \in ConcChoices(repo.Meta) :
        inflight' = [inflight EXCEPT ![c] =
                        [NoCall EXCEPT !.pc = "route", !.op = ch.op, !.tx = ch.tx,
                                       !.args = ch.args]]
    /\ UNCHANGED <<ent, rows, last, repo>>

\* if tx == nil { tx = r.ConnSet.ReadPool() / WritePool() }
RouteStep(c) ==
    /\ inflight[c].pc = "route"
    /\ inflight' = [inflight EXCEPT
            ![c].pc = "build",
            ![c].executor =
                LET route == Run(repo.Meta, <<>>, inflight[c].op, inflight[c].tx,
                                 inflight[c].args, 0)
                IN IF route.consulted = {} THEN route.executor
                   ELSE repo.ConnSet[route.executor]]
    /\ UNCHANGED <<ent, rows, last, repo>>

\* query := tx.NewSelect() ... with the columns, joins, filter, limit, order,
\* model and returning clause of the method
BuildStep(c) ==
    /\ inflight[c].pc = "build"
    /\ inflight' = [inflight EXCEPT
            ![c].pc = "exec",
            ![c].stmt = Run(repo.Meta, <<>>, inflight[c].op, inflight[c].tx,
                            BuildArgs(inflight, c), 0).stmt]
    /\ UNCHANGED <<ent, rows, last, repo>>

\* the terminal call of the query, then the return: the statement as the call
\* built it runs on the table as it is now
ExecStep(c) ==
    /\ inflight[c].pc = "exec"
    /\ inflight[c].op \in {"CreateOne", "CreateAll"} =>
            Len(rows) + Len(inflight[c].stmt.data) <= MaxRows
    /\ \E now \in (IF inflight[c].op = "Delete" THEN NowChoices(repo.Meta, rows)
                   ELSE {0}) :
        rows' = Run(repo.Meta, rows, inflight[c].op, inflight[c].tx,
                    BuildArgs(inflight, c), now).table
    /\ inflight' = [inflight EXCEPT ![c] = NoCall]
    /\ UNCHANGED <<ent, last, repo>>

ConcNext == \E c \in Callers : Enter(c) \/ RouteStep(c) \/ BuildStep(c) \/ ExecStep(c)

ConcSpec == Init /\ [][ConcNext]_vars

\* ------------------------------------------------ what a specifier means
RECURSIVE SpecSat(_, _, _), SpecFields(_)
\* the fields a specifier names
SpecFields(spec) ==
    CASE spec.t \in {"Equal", "In"} -> {spec.field}
      [] spec.t = "CompositeIn" -> {spec.fields[i] : i \in DOMAIN spec.fields}
      [] spec.t = "And" -> UNION {SpecFields(spec.children[i]) : i \in DOMAIN spec.children}
      [] OTHER -> {}

\* every field of the specifier is a column of the entity once resolved, or
\* is reached through a relation of the entity
SpecKnown(e, spec) ==
    \A f \in SpecFields(spec) :
        ResolveColumn(e, f) \in Columns(e) \/ FieldJoins(e, f) # <<>>

\* the values a row has for a field: its own column's value, for a field
\* reached through MainItem the name of the item the row refers to, for a
\* field reached through Items the names of the items the row holds
FieldValues(e, field, row) ==
    CASE field = "Category.MainItem.name" ->
            {Items[k].name : k \in {i \in DOMAIN Items : Items[i].id = row["main_item_id"]}}
      [] field = "Category.Items.name" ->
            {Items[k].name : k \in {i \in DOMAIN Items :
                \E l \in DOMAIN CategoryItems :
                    /\ CategoryItems[l].category_id = row["id"]
                    /\ CategoryItems[l].item_id = Items[i].id}}
      [] OTHER -> {row[ResolveColumn(e, field)]}

\* the row satisfies the predicate the specifier stands for
SpecSat(e, spec, row) ==
    CASE spec.t = "Equal" -> spec.value \in FieldValues(e, spec.field, row)
      [] spec.t = "In" ->
            \E i \in DOMAIN spec.values :
                spec.values[i] \in FieldValues(e, spec.field, row)
      [] spec.t = "CompositeIn" ->
            \E i \in DOMAIN spec.values :
                \A j \in DOMAIN spec.fields :
                    row[ResolveColumn(e, spec.fields[j])] = spec.values[i][j]
      [] spec.t = "And" ->
            \A i \in DOMAIN spec.children : SpecSat(e, spec.children[i], row)
      [] OTHER -> TRUE

\* the rows of a table a read with the specifier ranges over
Satisfying(e, table, spec) ==
    SelectSeq(Visible(e, table), LAMBDA r : SpecSat(e, spec, r))

ReadOps == {"FindOne", "FindOneByPk", "FindAll", "FindPage", "FindAllByPks", "Count",
            "IsColumnValueUnique"}
WriteOps == {"CreateOne", "CreateAll", "UpdateOne", "Delete", "ForceDelete"}

\* the call issued a statement (FindAllByPks can stop before it builds one)
Issued == last.op # "" /\ ~last.out.panicked

\* --------------------------------------------------------------- C1
\* C1: in every one of the twelve operations a non-nil transaction handle is
\* the executor of the statement, and neither ReadPool() nor WritePool() of
\* the ConnSet is asked for during the call.
C1_TxHandleUsed ==
    (last.op # "" /\ last.tx # NilTx) =>
        /\ last.out.consulted = {}
        /\ Issued => last.out.executor = last.tx

C1_Witness ==
    /\ last.op = "CreateOne"
    /\ last.tx = "tx"
    /\ last.out.err = NoErr
    /\ last.out.executor = "tx"

\* --------------------------------------------------------------- C2
\* C2: with a nil transaction handle the read-only operations run on the read
\* pool only and the mutating operations on the write pool only.
C2_PoolByKind ==
    (Issued /\ last.tx = NilTx) =>
        /\ last.op \in ReadOps \cup WriteOps
        /\ last.op \in ReadOps =>
            last.out.executor = "ReadPool" /\ last.out.consulted = {"ReadPool"}
        /\ last.op \in WriteOps =>
            last.out.executor = "WritePool" /\ last.out.consulted = {"WritePool"}

C2_Witness ==
    /\ last.op = "Delete"
    /\ last.tx = NilTx
    /\ last.out.err = NoErr
    /\ last.out.count > 0
    /\ last.out.executor = "WritePool"

\* --------------------------------------------------------------- C4 (S)
RECURSIVE C4_Conjuncts(_, _, _)
\* one equality per field of the key, taken in lexicographic field order
C4_Conjuncts(pk, fields, i) ==
    IF i > Len(fields) THEN <<>>
    ELSE IF fields[i] \in DOMAIN pk
         THEN <<NewEqual(fields[i], pk[fields[i]])>> \o C4_Conjuncts(pk, fields, i + 1)
         ELSE C4_Conjuncts(pk, fields, i + 1)

C4_S(pk) == NewAnd(C4_Conjuncts(pk, FieldOrder, 1))

\* --------------------------------------------------------------- C3
\* the specifier the last FindOne or FindOneByPk filters with
C3_Spec == IF last.op = "FindOne" THEN last.args.spec ELSE C4_S(last.args.pk)

\* the rows that match it
C3_Matching ==
    IF HasFilter(C3_Spec) THEN Satisfying(ent, last.before, C3_Spec)
    ELSE Visible(ent, last.before)

\* C3: FindOne, and FindOneByPk through it, never returns a nil entity with a
\* nil error: without a matching row it returns a nil entity and an error
\* that wraps sql.ErrNoRows under "find one", with a matching row a non-nil
\* entity and a nil error (the executor not failing for a reason of its own).
C3_NeverNilNil ==
    last.op \in {"FindOne", "FindOneByPk"} =>
        /\ ~(last.out.entity = NilEntity /\ last.out.err = NoErr)
        /\ ~(last.out.entity # NilEntity /\ last.out.err # NoErr)
        /\ (~last.fail /\ SpecKnown(ent, C3_Spec)) =>
            /\ Len(C3_Matching) = 0 =>
                /\ last.out.entity = NilEntity
                /\ last.out.err = [prefix |-> "find one", cause |-> "sql.ErrNoRows"]
            /\ Len(C3_Matching) > 0 =>
                /\ Len(last.out.entity) = 1
                /\ last.out.err = NoErr

C3_Witness ==
    /\ last.op = "FindOneByPk"
    /\ Len(last.before) > 0
    /\ last.out.entity = NilEntity
    /\ last.out.err = [prefix |-> "find one", cause |-> "sql.ErrNoRows"]

\* --------------------------------------------------------------- C4
\* C4: FindOneByPk(columns, pk) issues the statement and returns the result of
\* FindOne(columns, S), S the conjunction of one equality per field of pk in
\* lexicographic field order, each value bound to its own field's column.
C4_ByPkIsFindOne ==
    last.op = "FindOneByPk" =>
        last.out = FindOne(ent, last.before, last.tx, last.args.columns,
                           C4_S(last.args.pk), last.fail)

C4_Witness ==
    /\ last.op = "FindOneByPk"
    /\ IsComposite(last.args.pk)
    /\ last.out.err = NoErr
    /\ last.out.stmt.where.k = "and"
    /\ last.out.stmt.values = <<2, 1>>

\* --------------------------------------------------------------- C5
\* the batch of the last FindAllByPks
C5_Pks == last.args.pks

\* C5: FindAllByPks with composite keys that all have the first key's fields
\* emits one value tuple per key, in batch order, and the i-th value of every
\* tuple is the key's value for the i-th column of the sorted column list of
\* the first key.
C5_TuplesAligned ==
    (/\ last.op = "FindAllByPks"
     /\ Len(C5_Pks) > 0
     /\ IsComposite(C5_Pks[1])
     /\ \A i \in DOMAIN C5_Pks : DOMAIN C5_Pks[i] = DOMAIN C5_Pks[1]) =>
        LET fields == SelectSeq(FieldOrder, LAMBDA f : f \in DOMAIN C5_Pks[1])
            q == last.out.stmt
        IN /\ q.where.k = "cin"
           /\ q.where.cols = [j \in DOMAIN fields |-> ResolveColumn(ent, fields[j])]
           /\ Len(q.values) = 1
           /\ Len(q.values[1]) = Len(C5_Pks)
           /\ \A i \in DOMAIN C5_Pks :
                /\ Len(q.values[1][i]) = Len(fields)
                /\ \A j \in DOMAIN fields : q.values[1][i][j] = C5_Pks[i][fields[j]]

C5_Witness ==
    /\ last.op = "FindAllByPks"
    /\ ent = "TestComplexEnt"
    /\ Len(C5_Pks) = 2
    /\ C5_Pks[1] # C5_Pks[2]
    /\ IsComposite(C5_Pks[1]) /\ IsComposite(C5_Pks[2])
    /\ last.out.err = NoErr
    /\ last.out.stmt.where.cols = <<"first_id", "second_id">>
    /\ Len(last.out.entities) = 2

\* --------------------------------------------------------------- C6
\* the one field of a single-field key
C6_Field(pk) == CHOOSE f \in DOMAIN pk : TRUE

C6_Values == [i \in DOMAIN C5_Pks |-> C5_Pks[i][C6_Field(C5_Pks[i])]]

\* C6: FindAllByPks with a non-empty batch of single-field keys compiles to a
\* membership test on the column of the first key's field with one bound value
\* per key, in batch order, and is FindAll with that specifier.
C6_SimpleIn ==
    (/\ last.op = "FindAllByPks"
     /\ Len(C5_Pks) > 0
     /\ \A i \in DOMAIN C5_Pks : Cardinality(DOMAIN C5_Pks[i]) = 1) =>
        /\ last.out.stmt.where.k = "in"
        /\ last.out.stmt.where.col = ResolveColumn(ent, C6_Field(C5_Pks[1]))
        /\ last.out.stmt.values = <<C6_Values>>
        /\ last.out = FindAll(ent, last.before, last.tx, last.args.columns,
                              NewIn(C6_Field(C5_Pks[1]), C6_Values), last.fail,
                              last.args.scanned)

C6_Witness ==
    /\ last.op = "FindAllByPks"
    /\ Len(C5_Pks) = 2
    /\ \A i \in DOMAIN C5_Pks : Cardinality(DOMAIN C5_Pks[i]) = 1
    /\ DOMAIN C5_Pks[1] # DOMAIN C5_Pks[2]
    /\ last.out.stmt.values = <<(<<2, 1>>)>>
    /\ last.out.err = NoErr
    /\ Len(last.out.entities) = 1

\* --------------------------------------------------------------- C7
\* the rows of the table before the call that the call's specifier matches
C7_Hit == {i \in DOMAIN last.before : SpecSat(ent, last.args.spec, last.before[i])}

C7_Kept == SelectSeq(last.before, LAMBDA r : ~SpecSat(ent, last.args.spec, r))

\* the same call made through the other of Delete and ForceDelete
C7_Other ==
    IF last.op = "Delete"
    THEN ForceDelete(ent, last.before, last.tx, last.args.spec, last.fail,
                     last.args.rowsFail)
    ELSE Delete(ent, last.before, last.tx, last.args.spec, 0, last.fail,
                last.args.rowsFail)

\* C7: on a soft-deletable entity Delete removes no row (it only sets deletion
\* markers) and ForceDelete removes every matching row; on an entity without
\* a marker Delete and ForceDelete remove the matching rows and return the
\* same count.
C7_DeleteVsForceDelete ==
    /\ (last.op = "Delete" /\ IsSoftDeletable(ent)) =>
        /\ Len(rows) = Len(last.before)
        /\ \A i \in DOMAIN rows :
             [rows[i] EXCEPT !["deleted_at"] = last.before[i]["deleted_at"]]
                = last.before[i]
    /\ (last.op = "ForceDelete" /\ last.out.err = NoErr) =>
        /\ rows = C7_Kept
        /\ last.out.count = Cardinality(C7_Hit)
    /\ (last.op \in {"Delete", "ForceDelete"} /\ ~IsSoftDeletable(ent)) =>
        /\ rows = C7_Other.table
        /\ last.out.count = C7_Other.count
        /\ (last.out.err = NoErr) = (C7_Other.err = NoErr)
        /\ last.out.err = NoErr => rows = C7_Kept

C7_Witness ==
    /\ IsSoftDeletable(ent)
    /\ last.op = "ForceDelete"
    /\ last.out.err = NoErr
    /\ \E i \in C7_Hit : last.before[i]["deleted_at"] = 0
    /\ \E i \in C7_Hit : last.before[i]["deleted_at"] # 0
    /\ rows = <<>>

\* --------------------------------------------------------------- C8
\* C8: Delete on a soft-deletable entity leaves every row that is already
\* marked as it is and counts only the rows it marks, so the same Delete
\* repeated at once returns 0 and changes nothing.
C8_SoftDeleteOnce ==
    (last.op = "Delete" /\ IsSoftDeletable(ent)) =>
        /\ \A i \in DOMAIN last.before :
             last.before[i]["deleted_at"] # 0 => rows[i] = last.before[i]
        /\ last.out.count =
             IF last.out.err = NoErr
             THEN Cardinality({i \in DOMAIN last.before :
                            rows[i]["deleted_at"] # last.before[i]["deleted_at"]})
             ELSE 0
        /\ last.repeat => last.out.count = 0 /\ rows = last.before

C8_Witness ==
    /\ IsSoftDeletable(ent)
    /\ last.op = "Delete"
    /\ last.repeat
    /\ last.out.err = NoErr
    /\ \E i \in DOMAIN rows :
         rows[i]["deleted_at"] # 0 /\ SpecSat(ent, last.args.spec, rows[i])

\* --------------------------------------------------------------- C9
\* the rows of the table before the call that pass the filter of the call
C9_Filtered ==
    IF HasFilter(last.args.spec)
    THEN Satisfying(ent, last.before, last.args.spec)
    ELSE Visible(ent, last.before)

\* the ORDER BY lists the Sorter of the call can give
C9_Clauses ==
    {OrderBy(ent, last.args.sort, o) : o \in RangeOrders(last.args.sort.directions)}

\* the page of the call cut out of rs: size rows from row size * number on,
\* every row when the pager is nil or empty or asks for size 0
C9_Cut(rs) ==
    LET page == last.args.page
        first == page.size * page.number + 1
        end == Min(Len(rs), page.size * page.number + page.size)
    IN IF page.nil \/ page.size = 0 THEN rs
       ELSE IF first > end THEN <<>> ELSE SubSeq(rs, first, end)

\* the position of a builder call among the calls made on the statement
C9_Pos(name) ==
    CHOOSE i \in DOMAIN last.out.stmt.calls : last.out.stmt.calls[i] = name

C9_Called(name) ==
    \E i \in DOMAIN last.out.stmt.calls : last.out.stmt.calls[i] = name

\* C9: a FindPage that succeeds returns the page cut out of the filtered rows
\* after they were ordered by the Sorter, although Limit and Offset are set on
\* the query before OrderExpr; a nil or empty Sorter puts no ordering on the
\* query and the page is cut out of the filtered rows as they are.
C9_FilterSortCut ==
    (last.op = "FindPage" /\ last.out.err = NoErr) =>
        /\ IF ~last.args.sort.nil /\ DOMAIN last.args.sort.directions # {}
           THEN \E c \in C9_Clauses :
                   /\ last.out.stmt.order = c
                   /\ last.out.entities = C9_Cut(SortRows(C9_Filtered, c))
           ELSE /\ ~C9_Called("OrderExpr")
                /\ last.out.stmt.order = <<>>
                /\ last.out.entities = C9_Cut(C9_Filtered)
        /\ (C9_Called("Limit") /\ C9_Called("OrderExpr")) =>
              /\ C9_Pos("Limit") < C9_Pos("OrderExpr")
              /\ C9_Pos("Offset") < C9_Pos("OrderExpr")

C9_Witness ==
    /\ last.op = "FindPage"
    /\ last.out.err = NoErr
    /\ C9_Called("Limit") /\ C9_Called("OrderExpr")
    /\ HasFilter(last.args.spec)
    /\ Len(C9_Filtered) = 2
    /\ Len(last.out.entities) = 1
    /\ last.out.entities # C9_Cut(C9_Filtered)

\* -------------------------------------------------------------- C10
\* C10: GetOffset() is size * number and IsEmpty() holds exactly for size 0
\* and number 0; FindPage sets Limit(size) and Offset(size * number) exactly
\* when the pager is neither nil nor empty, and a page that starts at or
\* after the end of the filtered rows gives an empty result and no error.
C10_PageArithmetic ==
    /\ \A page \in PageChoices \ {NilPage} :
        /\ GetOffset(page) = page.size * page.number
        /\ PageIsEmpty(page) <=> (page.size = 0 /\ page.number = 0)
    /\ last.op = "FindPage" =>
        LET page == last.args.page
            paged == ~page.nil /\ ~(page.size = 0 /\ page.number = 0)
        IN /\ C9_Called("Limit") <=> paged
           /\ C9_Called("Offset") <=> paged
           /\ paged => /\ last.out.stmt.limit = page.size
                       /\ last.out.stmt.offset = page.size * page.number
           /\ (paged /\ ~last.fail
                 /\ page.size * page.number >= Len(C9_Filtered)) =>
                    /\ last.out.err = NoErr
                    /\ last.out.entities = <<>>

C10_Witness ==
    /\ last.op = "FindPage"
    /\ last.args.page = NewPager(1, 1)
    /\ Len(C9_Filtered) = 1
    /\ last.out.stmt.limit = 1
    /\ last.out.stmt.offset = 1
    /\ last.out.err = NoErr
    /\ last.out.entities = <<>>

\* -------------------------------------------------------------- C11
\* the clause a caller expects from the WithSort calls of the last FindPage:
\* one entry per call, in the order of the calls
C11_Supplied ==
    [i \in DOMAIN last.args.sortCalls |->
        [col |-> ResolveColumn(ent, last.args.sortCalls[i].field),
         dir |-> ToUpper(last.args.sortCalls[i].dir)]]

\* C11: the clause OrderBy gives for a Sorter built by a sequence of WithSort
\* calls has one "column DIRECTION" entry per call, in the order of the calls.
C11_ClauseAsSupplied ==
    (last.op = "FindPage" /\ HasSort(last.args.sort)) =>
        last.out.stmt.order = C11_Supplied

\* -------------------------------------------------------------- C12
\* the prefix that names an operation; the two that delegate carry the name of
\* the operation they delegate to
C12_Prefix(op) ==
    CASE op = "FindOne" -> "find one"
      [] op = "FindOneByPk" -> "find one"
      [] op = "FindAll" -> "find all"
      [] op = "FindAllByPks" -> "find all"
      [] op = "FindPage" -> "find page"
      [] op = "Count" -> "count"
      [] op = "CreateOne" -> "create one"
      [] op = "CreateAll" -> "create all"
      [] op = "UpdateOne" -> "update one"
      [] op = "ForceDelete" -> "force delete"
      [] op = "Delete" -> "delete"
      [] op = "IsColumnValueUnique" -> "is column value unique"
      [] OTHER -> ""

\* C12: every error an operation returns is the underlying failure wrapped
\* with the prefix that names that operation.
C12_PrefixNamesOperation ==
    (last.op # "" /\ last.out.err # NoErr) =>
        /\ last.out.err.prefix = C12_Prefix(last.op)
        /\ last.out.err.cause # ""

\* -------------------------------------------------------------- C13
\* C13: whenever FindAll or FindPage returns an error, the collection returned
\* with it is empty.
C13_EmptyOnError ==
    (last.op \in {"FindAll", "FindPage"} /\ last.out.err # NoErr) =>
        last.out.entities = <<>>

\* -------------------------------------------------------------- C14
\* the positions of a builder call among the calls made on the statement
C14_Calls(name) ==
    {i \in DOMAIN last.out.stmt.calls : last.out.stmt.calls[i] = name}

\* the specifier of the last call is nil or has no children
C14_NoSpec ==
    \/ last.args.spec = NilSpec
    \/ last.args.spec.t = "And" /\ Len(last.args.spec.children) = 0

\* what the last call returned is what a read without filter gives on rows
C14_RangesOver(rs) ==
    /\ last.op = "Count" => last.out.count = Len(rs)
    /\ last.op = "FindAll" =>
         /\ Len(last.out.entities) = Len(rs)
         /\ last.args.columns = <<"*">> => last.out.entities = rs
    /\ last.op = "FindOne" =>
         /\ Len(rs) > 0
         /\ last.args.columns = <<"*">> => last.out.entity = <<rs[1]>>
    /\ (last.op = "FindPage" /\ last.args.page.nil /\ last.args.sort.nil) =>
         last.out.entities = rs

\* the specifier's part of the statement of the last call, ranging over rs
\* when there is none
C14_Contribution(rs) ==
    last.op \in {"FindOne", "FindAll", "FindPage", "Count"} =>
        IF C14_NoSpec
        THEN /\ last.out.stmt.joins = <<>>
             /\ last.out.stmt.where = NoFrag
             /\ last.out.stmt.values = <<>>
             /\ C14_Calls("Join") = {} /\ C14_Calls("Where") = {}
             /\ last.out.err = NoErr => C14_RangesOver(rs)
        ELSE /\ last.out.stmt.joins = SpecJoins(ent, last.args.spec)
             /\ last.out.stmt.where = SpecQuery(ent, last.args.spec)
             /\ last.out.stmt.values = SpecValues(last.args.spec)
             /\ Cardinality(C14_Calls("Join")) = Len(SpecJoins(ent, last.args.spec))
             /\ Cardinality(C14_Calls("Where")) = 1
             /\ \A j \in C14_Calls("Join"), w \in C14_Calls("Where") : j < w

\* C14 as stated: a nil or empty specifier adds no join, no filter and no
\* value, so the operation ranges over every row of the table; a non-empty
\* one adds all its joins first, then one filter with its values.
C14_EveryRow == C14_Contribution(last.before)

\* C14: a nil or empty specifier adds no join, no filter and no value, so the
\* operation ranges over every row of the table that is not marked deleted; a
\* non-empty one adds all its joins first, then one filter with its values.
C14_EveryVisibleRow == C14_Contribution(Visible(ent, last.before))

C14_Witness ==
    /\ last.op = "FindAll"
    /\ last.args.spec = NewAnd(<<>>)
    /\ last.args.columns = <<"*">>
    /\ last.out.err = NoErr
    /\ IsSoftDeletable(ent)
    /\ Len(last.out.entities) = 1
    /\ Len(last.before) = 2

\* -------------------------------------------------------------- C15
\* FindAll, or Count, called where the last call was, with its arguments
C15_FindAll ==
    FindAll(ent, last.before, last.tx, <<"*">>, last.args.spec, last.fail, 0)

C15_Count == Count(ent, last.before, last.tx, last.args.spec, last.fail)

\* C15: Count puts the joins, the filter and the bound values on its
\* statement that FindAll puts on its own for the same specifier; when Count
\* succeeds it returns the number of entities FindAll returns, and when it
\* fails it returns 0 with the error wrapped.
C15_CountIsLenFindAll ==
    /\ last.op = "Count" =>
        /\ last.out.stmt.joins = C15_FindAll.stmt.joins
        /\ last.out.stmt.where = C15_FindAll.stmt.where
        /\ last.out.stmt.values = C15_FindAll.stmt.values
        /\ last.out.err = NoErr =>
             /\ C15_FindAll.err = NoErr
             /\ last.out.count = Len(C15_FindAll.entities)
        /\ last.out.err # NoErr =>
             /\ last.out.count = 0
             /\ last.out.err.prefix = "count"
             /\ last.out.err.cause # ""
    /\ (last.op = "FindAll" /\ last.out.err = NoErr) =>
        /\ C15_Count.err = NoErr
        /\ C15_Count.count = Len(last.out.entities)

C15_Witness ==
    /\ last.op = "Count"
    /\ ent = "TestCategoryEnt"
    /\ last.out.stmt.joins = <<MainItemJoin>>
    /\ last.out.err = NoErr
    /\ last.out.count = 1
    /\ Len(last.before) = 2

\* -------------------------------------------------------------- C16
\* the columns the caller named in columnsToUpdate
C16_Named == {last.args.set[i] : i \in DOMAIN last.args.set}

\* C16: UpdateOne changes only the row whose primary key is the entity's own,
\* on every key column, and in it only the columns named in columnsToUpdate.
C16_OnlyNamedColumns ==
    last.op = "UpdateOne" =>
        /\ Len(rows) = Len(last.before)
        /\ \A i \in DOMAIN last.before :
             \A c \in Columns(ent) :
                rows[i][c] # last.before[i][c] =>
                    /\ \A k \in PkColumns(ent) :
                          last.before[i][k] = last.args.entities[1][k]
                    /\ c \in C16_Named

\* -------------------------------------------------------------- C17
\* the row the store kept for the insert: the one appended to the table
C17_Stored == rows[Len(rows)]

C17_Named(c) ==
    \E i \in DOMAIN last.args.columns : last.args.columns[i] \in {"*", c}

\* C17: on success CreateOne returns the entity it was given, the fields named
\* by the returning columns overwritten with the values the store returned,
\* every other field as supplied.
C17_GivenEntityWithReturned ==
    (last.op = "CreateOne" /\ last.out.err = NoErr) =>
        /\ Len(last.out.entity) = 1
        /\ Len(rows) = Len(last.before) + 1
        /\ \A c \in Columns(ent) :
             last.out.entity[1][c] =
                IF C17_Named(c) THEN C17_Stored[c] ELSE last.args.entities[1][c]

\* an entity given with id 0 comes back with the id the store generated
C17_Witness ==
    /\ ent = "TestSimpleEnt"
    /\ last.op = "CreateOne"
    /\ last.out.err = NoErr
    /\ last.args.columns = <<"*">>
    /\ last.args.entities[1]["id"] = 0
    /\ last.out.entity[1]["id"] = 2
    /\ last.out.entity[1]["name"] = last.args.entities[1]["name"]

\* -------------------------------------------------------------- C18
\* the table holds a row whose column equals value, marked deleted or not
C18_RowExists ==
    \E i \in DOMAIN rows : rows[i][last.args.column] = last.args.value

\* C18: IsColumnValueUnique(column, value) returns true when the table contains
\* a row whose column equals value, and false when no such row exists.
C18_TrueIffRowExists ==
    (last.op = "IsColumnValueUnique" /\ last.out.err = NoErr) =>
        last.out.flag = C18_RowExists

\* -------------------------------------------------------------- C19
\* the table as it was before any Delete marked a row
C19_Unmarked ==
    [i \in DOMAIN rows |-> [rows[i] EXCEPT ![SoftDeleteColumn(ent)] = 0]]

\* C19: on a soft-deletable entity the probe finds a matching row whether or
\* not its deletion marker is set: its result is the one it gives on the same
\* table with no row marked.
C19_IgnoresSoftDelete ==
    (/\ last.op = "IsColumnValueUnique"
     /\ IsSoftDeletable(ent)
     /\ last.out.err = NoErr) =>
        last.out.flag =
            IsColumnValueUnique(ent, C19_Unmarked, last.tx, last.args.column,
                                last.args.value, last.fail).flag

\* -------------------------------------------------------------- C20
\* C20: every call of a public operation sends exactly one statement, on one
\* executor (the caller's handle, or the one pool it asked for), also when it
\* delegates and when it inserts a batch, and also when the statement fails.
C20_OneStatementPerCall ==
    last.op # "" =>
        /\ Len(last.out.issued) = 1
        /\ last.out.issued[1].executor =
              IF last.tx # NilTx THEN last.tx
              ELSE CHOOSE pool \in last.out.consulted : TRUE
        /\ Cardinality(last.out.consulted) <= 1
        /\ last.op = "CreateAll" =>
              last.out.issued[1].rows = Len(last.args.entities)

\* -------------------------------------------------------------- C22
RECURSIVE C22_Concatenated(_)
\* the fragment, or a part of it, is statement text put together from a string
\* of the caller rather than compiled by a specifier
C22_Concatenated(frag) ==
    \/ frag.k = "raw"
    \/ /\ frag.k = "and"
       /\ \E i \in DOMAIN frag.parts : C22_Concatenated(frag.parts[i])

\* C22: no operation builds statement text by concatenating a caller-supplied
\* string: the caller's column names reach the filter only as the columns of a
\* compiled specifier fragment, the values only as bound values.
C22_NoConcatenation ==
    last.op # "" => ~C22_Concatenated(last.out.stmt.where)

\* -------------------------------------------------------------- C23
\* a key of the batch after the first has other fields than the first
C23_Mixed ==
    \E i \in DOMAIN last.args.pks : DOMAIN last.args.pks[i] # DOMAIN last.args.pks[1]

\* the bound values are not one value per key (simple membership) or hold a
\* tuple that has not one value per column (composite membership)
C23_WronglyShaped ==
    LET q == last.out.stmt
    IN IF q.where.k = "cin"
       THEN \E i \in DOMAIN q.values[1] : Len(q.values[1][i]) # Len(q.where.cols)
       ELSE Len(q.values[1]) # Len(last.args.pks)

\* C23: in FindAllByPks the first key of the batch alone fixes the kind of
\* membership and the columns; a later key with other fields is not rejected
\* by the operation: the statement is issued, with a wrongly shaped value
\* tuple or ending in a failure of the query layer.
C23_FirstKeyDecides ==
    (last.op = "FindAllByPks" /\ Len(last.args.pks) > 0) =>
        /\ last.out.stmt.where.k = IF IsComposite(last.args.pks[1]) THEN "cin" ELSE "in"
        /\ FragCols(last.out.stmt.where) =
              {ResolveColumn(ent, f) : f \in DOMAIN last.args.pks[1]}
        /\ C23_Mixed =>
              /\ Len(last.out.issued) = 1
              /\ C23_WronglyShaped \/ last.out.err # NoErr

\* -------------------------------------------------------------- C24
\* the specifier of the call names a field reached through the relation
C24_Through(field) ==
    ent = "TestCategoryEnt" /\ field \in SpecFields(last.args.spec)

\* how often the statement has the join
C24_Times(join) ==
    Cardinality({i \in DOMAIN last.out.stmt.joins : last.out.stmt.joins[i] = join})

C24_Once(b) == IF b THEN 1 ELSE 0

\* C24: a read whose specifier goes through a relation adds the joins that
\* reach it before the filter, in the order the specifier returns them: the via
\* table and then the target table for a to-many relation, one join for a
\* to-one relation, each join once however often the relation is named.
C24_JoinsBeforeFilter ==
    (last.op \in {"FindOne", "FindAll", "FindPage", "Count"}
        /\ HasFilter(last.args.spec)) =>
        LET q == last.out.stmt
            many == C24_Through("Category.Items.name")
            one == C24_Through("Category.MainItem.name")
        IN /\ C24_Times(ViaJoin) = C24_Once(many)
           /\ C24_Times(ItemsJoin) = C24_Once(many)
           /\ C24_Times(MainItemJoin) = C24_Once(one)
           /\ Len(q.joins) = 2 * C24_Once(many) + C24_Once(one)
           /\ \A i, j \in DOMAIN q.joins :
                (q.joins[i] = ViaJoin /\ q.joins[j] = ItemsJoin) => i < j
           /\ q.joins = SpecJoins(ent, last.args.spec)
           /\ Cardinality({i \in DOMAIN q.calls : q.calls[i] = "Join"}) = Len(q.joins)
           /\ \A i, j \in DOMAIN q.calls :
                (q.calls[i] = "Join" /\ q.calls[j] = "Where") => i < j

\* a page filtered on the to-many relation, named twice: two joins, one row
C24_Witness ==
    /\ last.op = "FindPage"
    /\ last.args.spec = NewAnd(<<NewEqual("Category.Items.name", 2),
                                 NewEqual("Category.Items.name", 2)>>)
    /\ last.out.stmt.joins = <<ViaJoin, ItemsJoin>>
    /\ last.out.err = NoErr
    /\ Len(last.before) = 2
    /\ Len(last.out.entities) = 1

\* -------------------------------------------------------------- C25
\* the column is among those the call selects
C25_Selected(c) ==
    \E i \in DOMAIN last.args.columns : last.args.columns[i] \in {"*", c}

\* C25: FindOne and FindOneByPk put no row limit on their statement; when more
\* than one row matches they return one of the matching rows with a nil
\* error, never a failure for having too many rows.
C25_OneOfSeveral ==
    last.op \in {"FindOne", "FindOneByPk"} =>
        /\ last.out.stmt.limit = 0
        /\ \A i \in DOMAIN last.out.stmt.calls : last.out.stmt.calls[i] # "Limit"
        /\ (~last.fail /\ SpecKnown(ent, C3_Spec) /\ Len(C3_Matching) > 1) =>
            /\ last.out.err = NoErr
            /\ Len(last.out.entity) = 1
            /\ \E i \in DOMAIN C3_Matching :
                 \A c \in Columns(ent) :
                    C25_Selected(c) => last.out.entity[1][c] = C3_Matching[i][c]

\* a FindOneByPk on a key two rows share
C25_Witness ==
    /\ last.op = "FindOneByPk"
    /\ last.args.pk # EmptyPk
    /\ Len(C3_Matching) = 2
    /\ C3_Matching[1] # C3_Matching[2]
    /\ last.out.err = NoErr
    /\ Len(last.out.entity) = 1

\* -------------------------------------------------------------- C26
\* C26: FindAllByPks completes normally for every list of primary keys, the
\* empty list included: it returns entities or a wrapped error, and never
\* faults while it picks the membership column.
C26_CompletesNormally ==
    last.op = "FindAllByPks" =>
        /\ ~last.out.panicked
        /\ last.out.err # NoErr => last.out.err.prefix = "find all"

\* -------------------------------------------------------------- C27
\* a FindOneByPk with a key that has no fields, on an executor that works
C27_NoFields ==
    last.op = "FindOneByPk" /\ last.args.pk = EmptyPk /\ ~last.fail

\* the call ran unfiltered and returned a row out of rs, when rs has one
C27_Unfiltered(rs) ==
    /\ last.out.stmt.where = NoFrag
    /\ last.out.stmt.values = <<>>
    /\ last.out.stmt.calls = <<"Column">>
    /\ Len(rs) > 0 =>
        /\ last.out.err = NoErr
        /\ Len(last.out.entity) = 1
        /\ \E i \in DOMAIN rs :
             \A c \in Columns(ent) :
                C25_Selected(c) => last.out.entity[1][c] = rs[i][c]

\* C27: FindOneByPk with a primary key that has no fields builds a conjunction
\* without children, an empty specifier, so the call runs as an unfiltered
\* FindOne and returns some row with a nil error whenever the table is not
\* empty.
C27_AnyRow == C27_NoFields => C27_Unfiltered(last.before)

\* C27 as amended: ... whenever the table has a row that is not marked deleted.
C27_AnyVisibleRow == C27_NoFields => C27_Unfiltered(Visible(ent, last.before))

C27_Witness ==
    /\ C27_NoFields
    /\ Len(last.before) = 2
    /\ last.out.err = NoErr
    /\ last.out.entity = <<last.before[1]>>

\* -------------------------------------------------------------- C28
\* FindAll with the specifier of the call, on the table the call found
C28_FindAll ==
    FindAll(ent, last.before, last.tx, <<"*">>, last.args.spec, FALSE, 0)

\* the rows the call changed or removed
C28_Affected ==
    {last.before[i] : i \in {k \in DOMAIN last.before :
                                ~\E j \in DOMAIN rows : rows[j] = last.before[k]}}

\* C28: Delete and ForceDelete compile a specifier as the reads do, the joins
\* of a specifier that goes through a relation included, so the rows they
\* affect are exactly the rows FindAll returns for the same specifier.
C28_AffectsWhatFindAllReturns ==
    (last.op \in {"Delete", "ForceDelete"} /\ ~last.fail /\ ~last.args.rowsFail) =>
        /\ last.out.stmt.joins = C28_FindAll.stmt.joins
        /\ last.out.stmt.where = C28_FindAll.stmt.where
        /\ last.out.stmt.values = C28_FindAll.stmt.values
        /\ C28_FindAll.err = NoErr =>
            /\ last.out.err = NoErr
            /\ C28_Affected =
                  {C28_FindAll.entities[i] : i \in DOMAIN C28_FindAll.entities}
            /\ last.out.count = Len(C28_FindAll.entities)

\* -------------------------------------------------------------- C29
\* C29: whenever an operation returns a non-nil error its other result is the
\* zero value: a nil entity, an empty collection, the count 0, false.
C29_ZeroBesideError ==
    (last.op # "" /\ last.out.err # NoErr) =>
        /\ last.out.entity = NilEntity
        /\ last.out.entities = <<>>
        /\ last.out.count = 0
        /\ last.out.flag = FALSE

\* -------------------------------------------------------------- C30
\* C30: for every entity shape, a composite primary key without a column id
\* included, the statement IsColumnValueUnique builds names only columns of
\* that entity: the caller's column in its filter, columns of the entity in
\* its select list.
C30_OwnColumnsOnly ==
    last.op = "IsColumnValueUnique" =>
        /\ FragCols(last.out.stmt.where) = {last.args.column}
        /\ \A i \in DOMAIN last.out.stmt.columns :
             last.out.stmt.columns[i] \in Columns(ent)


\* C21: the repository keeps no state across calls: no operation modifies the
\* repository's ConnSet or Meta, and under any interleaving of concurrent
\* calls on the same repository the statement each call has compiled is the
\* one its own arguments give, and its executor the one its own tx gives,
\* whatever the other calls in flight were given.
C21_OwnStatement(c) ==
    Run(ent, <<>>, inflight[c].op, inflight[c].tx, inflight[c].args, 0)

====
